---- MODULE Spec2Model ----
(***************************************************************************)
(* A model of main.py of AI-file-renamer: the category classifier, the     *)
(* filename normaliser (ensure_extension, clean_filename) and the          *)
(* orchestrator rename_single_file over an abstract POSIX filesystem.      *)
(* Strings are sequences of one-character strings.                         *)
(***************************************************************************)
EXTENDS Integers, Sequences, FiniteSets, TLC

VARIABLES
    fs,             \* the filesystem: path |-> [data, size] for every regular file
    fs0,            \* the filesystem as it was when the invocation started
    file_path,      \* rename_single_file's argument
    pc,             \* position inside rename_single_file
    mime,           \* local mime (a sequence of tokens)
    category,       \* local category
    new_filename,   \* local new_filename
    new_file_path,  \* local new_file_path
    confirmation,   \* "none" | "accepted" | "declined": get_user_confirmation's answer
    result,         \* "running" | "True" | "False" | "raised"
    message,        \* which message the invocation printed last
    gatewayCalls,   \* number of client.responses.create calls made
    renameCalls,    \* number of os.rename calls made
    console,        \* what the terminal gave get_user_confirmation, if asked
    raw,            \* normaliser run: the raw suggestion
    ext,            \* normaliser run: the original extension
    final,          \* normaliser run: clean_filename(ensure_extension(raw, ext))
    phase,          \* normaliser / classifier run: "input" | "done"
    cls_path,       \* classifier run: file_path
    cls_mime,       \* classifier run: mime
    cls_out         \* classifier run: get_file_category's result

vars == << fs, fs0, file_path, pc, mime, category, new_filename, new_file_path,
           confirmation, result, message, gatewayCalls, renameCalls, console,
           raw, ext, final, phase, cls_path, cls_mime, cls_out >>

orchVars == << fs, fs0, file_path, pc, mime, category, new_filename, new_file_path,
               confirmation, result, message, gatewayCalls, renameCalls, console >>

normVars == << raw, ext, final >>

clsVars == << cls_path, cls_mime, cls_out >>

-----------------------------------------------------------------------------
(* Bounds of the model.                                                    *)

MaxRawLen == 4

MaxSuggestionLen == 3

-----------------------------------------------------------------------------
(* Python string primitives.                                               *)

Whitespace == {" ", "\t", "\n"}

UpperLetters ==
    << "A", "B", "C", "D", "E", "F", "G", "H", "I", "J", "K", "L", "M",
       "N", "O", "P", "Q", "R", "S", "T", "U", "V", "W", "X", "Y", "Z" >>

LowerLetters ==
    << "a", "b", "c", "d", "e", "f", "g", "h", "i", "j", "k", "l", "m",
       "n", "o", "p", "q", "r", "s", "t", "u", "v", "w", "x", "y", "z" >>

LowerChar(c) ==
    IF \E i \in 1..Len(UpperLetters) : UpperLetters[i] = c
    THEN LowerLetters[CHOOSE i \in 1..Len(UpperLetters) : UpperLetters[i] = c]
    ELSE c

Lower(s) == [i \in 1..Len(s) |-> LowerChar(s[i])]

EndsWith(s, suf) ==
    /\ Len(suf) <= Len(s)
    /\ SubSeq(s, Len(s) - Len(suf) + 1, Len(s)) = suf

StartsWith(s, pre) ==
    /\ Len(pre) <= Len(s)
    /\ SubSeq(s, 1, Len(pre)) = pre

\* str.rfind(c) with 1-based positions: 0 when c does not occur.
RFind(s, c) ==
    IF \E i \in 1..Len(s) : s[i] = c
    THEN CHOOSE i \in 1..Len(s) : s[i] = c /\ \A j \in (i+1)..Len(s) : s[j] # c
    ELSE 0

RECURSIVE LStripChars(_, _)
LStripChars(s, chars) ==
    IF s # << >> /\ Head(s) \in chars THEN LStripChars(Tail(s), chars) ELSE s

RECURSIVE RStripChars(_, _)
RStripChars(s, chars) ==
    IF s # << >> /\ s[Len(s)] \in chars
    THEN RStripChars(SubSeq(s, 1, Len(s) - 1), chars)
    ELSE s

\* str.strip()
Strip(s) == RStripChars(LStripChars(s, Whitespace), Whitespace)

\* " ".join(s.split()): runs of whitespace become one space, the ends are trimmed.
RECURSIVE CollapseSpaces(_)
CollapseSpaces(s) ==
    IF s = << >> THEN << >>
    ELSE IF Head(s) \in Whitespace
         THEN IF Tail(s) = << >> \/ Head(Tail(s)) \in Whitespace
              THEN CollapseSpaces(Tail(s))
              ELSE << " " >> \o CollapseSpaces(Tail(s))
         ELSE << Head(s) >> \o CollapseSpaces(Tail(s))

SplitJoin(s) == CollapseSpaces(LStripChars(s, Whitespace))

\* posixpath.splitext: the extension starts at the last dot of the last path
\* component, unless only dots precede it in that component.
splitext(p) ==
    LET sepIndex == RFind(p, "/")
        dotIndex == RFind(p, ".")
    IN  IF /\ dotIndex > sepIndex
           /\ \E k \in (sepIndex + 1)..(dotIndex - 1) : p[k] # "."
        THEN << SubSeq(p, 1, dotIndex - 1), SubSeq(p, dotIndex, Len(p)) >>
        ELSE << p, << >> >>

\* pathlib: PurePath.name, .suffix and str(.parent) of a normalised path.
PathName(p) == SubSeq(p, RFind(p, "/") + 1, Len(p))

PathSuffix(p) ==
    LET name == PathName(p)
        i    == RFind(name, ".")
    IN  IF 1 < i /\ i < Len(name) THEN SubSeq(name, i, Len(name)) ELSE << >>

PathParent(p) ==
    IF RFind(p, "/") = 0 THEN << "." >>
    ELSE IF RFind(p, "/") = 1 THEN << "/" >>
    ELSE SubSeq(p, 1, RFind(p, "/") - 1)

\* posixpath.join(a, b)
os_path_join(a, b) ==
    IF StartsWith(b, << "/" >>) THEN b
    ELSE IF a = << >> \/ EndsWith(a, << "/" >>) THEN a \o b
    ELSE a \o << "/" >> \o b

-----------------------------------------------------------------------------
(* The response normaliser.                                                *)

renamed_file == << "r", "e", "n", "a", "m", "e", "d", "_", "f", "i", "l", "e" >>

\* The character class of the regular expression in clean_filename.
Reserved == {"<", ">", ":", "\"", "/", "\\", "|", "?", "*"}

RemoveReserved(s) == SelectSeq(s, LAMBDA c : c \notin Reserved)

clean_filename_keeps_reserved(filename) ==
    LET parts == splitext(filename)
        name  == RStripChars(SplitJoin(parts[1]), {".", " "})
    IN  IF name # << >> THEN name \o parts[2] ELSE renamed_file \o parts[2]

clean_filename(filename) ==
    LET parts == splitext(filename)
        name  == RStripChars(SplitJoin(RemoveReserved(parts[1])), {".", " "})
    IN  IF name # << >> THEN name \o parts[2] ELSE renamed_file \o parts[2]

ensure_extension(base_name, e) ==
    LET bn == Strip(base_name)
    IN  IF bn = << >> THEN renamed_file \o e
        ELSE IF e # << >> /\ ~EndsWith(Lower(bn), Lower(e)) THEN bn \o e
        ELSE bn

-----------------------------------------------------------------------------
(* The category classifier.  A MIME type is a sequence of tokens, so that  *)
(* "image/png" is <<"image", "/", "png">> and str.startswith is a prefix   *)
(* test on the tokens.                                                     *)

IMAGE_EXTENSIONS ==
    { <<".", "j", "p", "g">>,
      <<".", "j", "p", "e", "g">>,
      <<".", "p", "n", "g">>,
      <<".", "g", "i", "f">>,
      <<".", "b", "m", "p">>,
      <<".", "t", "i", "f", "f">>,
      <<".", "w", "e", "b", "p">>,
      <<".", "h", "e", "i", "c">> }

TEXT_EXTENSIONS ==
    { <<".", "t", "x", "t">>,
      <<".", "m", "d">>,
      <<".", "r", "s", "t">>,
      <<".", "l", "o", "g">>,
      <<".", "p", "y">>,
      <<".", "j", "s">>,
      <<".", "t", "s">>,
      <<".", "h", "t", "m", "l">>,
      <<".", "c", "s", "s">>,
      <<".", "j", "s", "o", "n">>,
      <<".", "x", "m", "l">>,
      <<".", "y", "m", "l">>,
      <<".", "y", "a", "m", "l">>,
      <<".", "c", "s", "v">>,
      <<".", "t", "o", "m", "l">>,
      <<".", "i", "n", "i">>,
      <<".", "c", "f", "g">>,
      <<".", "s", "q", "l">> }

PDF_EXTENSIONS ==
    { <<".", "p", "d", "f">> }

DOCUMENT_EXTENSIONS ==
    { <<".", "d", "o", "c">>,
      <<".", "d", "o", "c", "x">>,
      <<".", "r", "t", "f">>,
      <<".", "o", "d", "t">>,
      <<".", "p", "a", "g", "e", "s">> }

SPREADSHEET_EXTENSIONS ==
    { <<".", "x", "l", "s">>,
      <<".", "x", "l", "s", "x">>,
      <<".", "o", "d", "s">>,
      <<".", "n", "u", "m", "b", "e", "r", "s">>,
      <<".", "c", "s", "v">> }

PRESENTATION_EXTENSIONS ==
    { <<".", "p", "p", "t">>,
      <<".", "p", "p", "t", "x">>,
      <<".", "o", "d", "p">>,
      <<".", "k", "e", "y">> }


\* mime.startswith(("text/", "application/json"))
MimeIsText(m) ==
    \/ StartsWith(m, << "text", "/" >>)
    \/ StartsWith(m, << "application", "/", "json" >>)

get_file_category_nolower(path, m) ==
    LET extension == PathSuffix(path)
    IN  IF extension \in IMAGE_EXTENSIONS \/ StartsWith(m, << "image", "/" >>) THEN "image"
        ELSE IF extension \in TEXT_EXTENSIONS \/ MimeIsText(m) THEN "text"
        ELSE IF extension \in PDF_EXTENSIONS \/ m = << "application", "/", "pdf" >> THEN "pdf"
        ELSE IF extension \in DOCUMENT_EXTENSIONS THEN "document"
        ELSE IF extension \in SPREADSHEET_EXTENSIONS THEN "spreadsheet"
        ELSE IF extension \in PRESENTATION_EXTENSIONS THEN "presentation"
        ELSE "binary"

get_file_category(path, m) ==
    LET extension == Lower(PathSuffix(path))
    IN  IF extension \in IMAGE_EXTENSIONS \/ StartsWith(m, << "image", "/" >>) THEN "image"
        ELSE IF extension \in TEXT_EXTENSIONS \/ MimeIsText(m) THEN "text"
        ELSE IF extension \in PDF_EXTENSIONS \/ m = << "application", "/", "pdf" >> THEN "pdf"
        ELSE IF extension \in DOCUMENT_EXTENSIONS THEN "document"
        ELSE IF extension \in SPREADSHEET_EXTENSIONS THEN "spreadsheet"
        ELSE IF extension \in PRESENTATION_EXTENSIONS THEN "presentation"
        ELSE "binary"

-----------------------------------------------------------------------------
(* Inputs of the pure-function runs.                                       *)

Strings(alphabet, n) == UNION { [1..k -> alphabet] : k \in 0..n }

\* Characters a model's answer is drawn from: letters in both cases, the
\* dot, two reserved characters (one of them the path separator), a space.
RawAlphabet == {"a", "A", ".", "/", ":", " "}

\* Names of the file being renamed; ext is Path(current_filename).suffix.
OriginalNames ==
    { << "a" >>, << "a", ".", "a" >>, << "a", ".", "A" >> }

UpperChar(c) ==
    IF \E i \in 1..Len(LowerLetters) : LowerLetters[i] = c
    THEN UpperLetters[CHOOSE i \in 1..Len(LowerLetters) : LowerLetters[i] = c]
    ELSE c

Upper(s) == [i \in 1..Len(s) |-> UpperChar(s[i])]

TableExtensions ==
    IMAGE_EXTENSIONS \cup TEXT_EXTENSIONS \cup PDF_EXTENSIONS \cup
    DOCUMENT_EXTENSIONS \cup SPREADSHEET_EXTENSIONS \cup PRESENTATION_EXTENSIONS

ClsExtensions ==
    TableExtensions \cup { Upper(e) : e \in TableExtensions }
        \cup { << >>, << ".", "z", "i", "p" >> }

ClsPaths == { << "f" >> \o e : e \in ClsExtensions }

ClsMimes ==
    { << "image", "/", "png" >>,
      << "text", "/", "plain" >>,
      << "application", "/", "json" >>,
      << "application", "/", "json", "-seq" >>,
      << "application", "/", "pdf" >>,
      << "application", "/", "pdfx" >>,
      << "application", "/", "msword" >>,
      << "application", "/", "octet-stream" >> }

-----------------------------------------------------------------------------
(* Runs of the normaliser and of the classifier on every bounded input.    *)

\* The terminal has not been asked anything yet.
NoConsole == [ asked |-> FALSE, tty |-> FALSE, kind |-> "", text |-> << >> ]

OrchIdle ==
    /\ fs = << >> /\ fs0 = << >> /\ file_path = << >> /\ pc = "idle"
    /\ mime = << >> /\ category = "" /\ new_filename = << >>
    /\ new_file_path = << >> /\ confirmation = "none" /\ result = "running"
    /\ message = "" /\ gatewayCalls = 0 /\ renameCalls = 0 /\ console = NoConsole

NormIdle == raw = << >> /\ ext = << >> /\ final = << >>

ClsIdle == cls_path = << >> /\ cls_mime = << >> /\ cls_out = ""

NormInit ==
    /\ OrchIdle /\ ClsIdle
    /\ raw \in Strings(RawAlphabet, MaxRawLen)
    /\ ext \in { PathSuffix(n) : n \in OriginalNames }
    /\ final = << >>
    /\ phase = "input"

Normalize ==
    /\ phase = "input"
    /\ final' = clean_filename(ensure_extension(raw, ext))
    /\ phase' = "done"
    /\ UNCHANGED << raw, ext, orchVars, clsVars >>

NormNext == Normalize

NormSpec == NormInit /\ [][NormNext]_vars

ClsInit ==
    /\ OrchIdle /\ NormIdle
    /\ cls_path \in ClsPaths
    /\ cls_mime \in ClsMimes
    /\ cls_out = ""
    /\ phase = "input"

Classify ==
    /\ phase = "input"
    /\ cls_out' = get_file_category(cls_path, cls_mime)
    /\ phase' = "done"
    /\ UNCHANGED << cls_path, cls_mime, orchVars, normVars >>

ClsNext == Classify

ClsSpec == ClsInit /\ [][ClsNext]_vars

-----------------------------------------------------------------------------
(* The orchestrator, rename_single_file, over a filesystem with a single   *)
(* directory.  The invocation is cut at the points where it meets the      *)
(* outside world: the payload builder, the inference gateway, the          *)
(* confirmation prompt and the rename.                                     *)

MAX_FILE_BYTES == 3 * 1024 * 1024

Dir == << "d" >>

Dirs == { Dir }

InDir(name) == Dir \o << "/" >> \o name

TargetNames ==
    { << "a", ".", "m", "d" >>, << "a", ".", "p", "n", "g" >>, << "a" >> }

OtherNames ==
    { << "b", ".", "m", "d" >>, << "b", ".", "p", "n", "g" >>, << "b" >> }

Sizes == { 0, MAX_FILE_BYTES, MAX_FILE_BYTES + 1 }

\* The directory holds every target, each of the size chosen, and, when
\* withOthers, one more file per target whose name a suggestion can hit.
Filesystem(size, withOthers) ==
    LET names == TargetNames \cup (IF withOthers THEN OtherNames ELSE {})
    IN  [ p \in { InDir(n) : n \in names } |->
            [ data |-> PathName(p),
              size |-> IF PathName(p) \in TargetNames THEN size ELSE 0 ] ]

\* The command-line argument: a target, the directory itself, a missing file.
InputPaths == { InDir(n) : n \in TargetNames } \cup { Dir, InDir(<< "c" >>) }

\* Characters the gateway's answer is drawn from.
SuggestAlphabet == {"a", "b", ".", ":", "/", " "}

\* What client.responses.create gives: an exception, no output_text, or text.
GatewayResponses ==
    { [ kind |-> "APIError", text |-> << >> ], [ kind |-> "None", text |-> << >> ] }
        \cup { [ kind |-> "text", text |-> t ] : t \in Strings(SuggestAlphabet, MaxSuggestionLen) }

\* What the terminal gives input(): an interrupt or a line.
ConsoleInputs ==
    { [ kind |-> "KeyboardInterrupt", text |-> << >> ] }
        \cup { [ kind |-> "line", text |-> t ] : t \in { << >>, << " " >>, << "n" >> } }

\* Path.is_file, Path.stat().st_size, os.path.exists
is_file(f, p) == p \in DOMAIN f

os_path_exists_never(f, p) == FALSE

os_path_exists(f, p) == p \in DOMAIN f \/ p \in Dirs

\* mimetypes.guess_type(path)[0] or "application/octet-stream": decided by the
\* extension; text/markdown is known to some versions of the table only.
GuessTypes(path) ==
    LET e == Lower(PathSuffix(path))
    IN  IF e = << ".", "p", "n", "g" >> THEN { << "image", "/", "png" >> }
        ELSE IF e = << ".", "m", "d" >>
             THEN { << "text", "/", "markdown" >>, << "application", "/", "octet-stream" >> }
        ELSE { << "application", "/", "octet-stream" >> }

TooLarge_ge(size) == size >= MAX_FILE_BYTES

TooLarge(size) == size > MAX_FILE_BYTES

\* os.rename(src, dst) on POSIX: possible when src is a file and dst lies in an
\* existing directory and is no directory; it replaces a file at dst.
os_rename_ok(f, src, dst) ==
    /\ src \in DOMAIN f
    /\ PathParent(dst) \in Dirs
    /\ dst \notin Dirs

os_rename(f, src, dst) ==
    [ p \in (DOMAIN f \ {src}) \cup {dst} |-> IF p = dst THEN f[src] ELSE f[p] ]

get_user_confirmation_interrupt_accepts(tty, response) ==
    IF ~tty THEN TRUE
    ELSE IF response.kind = "KeyboardInterrupt" THEN TRUE
    ELSE Strip(response.text) = << >>

get_user_confirmation(tty, response) ==
    IF ~tty THEN TRUE
    ELSE IF response.kind = "KeyboardInterrupt" THEN FALSE
    ELSE Strip(response.text) = << >>

\* What the except clause of rename_single_file returns.
CaughtResult_escapes == "raised"

CaughtResult == "False"

\* The except clause: print the error, return False.
Caught(e) ==
    /\ result' = CaughtResult
    /\ message' = e
    /\ pc' = "done"

Init ==
    /\ NormIdle /\ ClsIdle /\ phase = "input"
    /\ \E size \in Sizes, withOthers \in BOOLEAN : fs = Filesystem(size, withOthers)
    /\ fs0 = fs
    /\ file_path \in InputPaths
    /\ pc = "start"
    /\ mime = << >>
    /\ category = ""
    /\ new_filename = << >>
    /\ new_file_path = << >>
    /\ confirmation = "none"
    /\ console = NoConsole
    /\ result = "running"
    /\ message = ""
    /\ gatewayCalls = 0
    /\ renameCalls = 0

\* Lines 307-320: the two guards, then the MIME type and the category.
Validate ==
    /\ pc = "start"
    /\ IF ~is_file(fs, file_path)
       THEN /\ result' = "False" /\ message' = "Not a file" /\ pc' = "done"
            /\ UNCHANGED << mime, category >>
       ELSE IF TooLarge(fs[file_path].size)
       THEN /\ result' = "False" /\ message' = "File too large" /\ pc' = "done"
            /\ UNCHANGED << mime, category >>
       ELSE /\ \E m \in GuessTypes(file_path) :
                 /\ mime' = m
                 /\ category' = get_file_category(file_path, m)
            /\ pc' = "classified"
            /\ UNCHANGED << result, message >>
    /\ UNCHANGED << fs, fs0, file_path, new_filename, new_file_path, confirmation,
                    console, gatewayCalls, renameCalls, normVars, clsVars, phase >>

\* suggest_filename up to the gateway call: image_base64_encode or open() may
\* raise; read_text_file catches every exception and never does.
BuildPayload ==
    /\ pc = "classified"
    /\ \E ok \in BOOLEAN :
         /\ category = "text" => ok
         /\ IF ok
            THEN pc' = "built" /\ UNCHANGED << result, message >>
            ELSE Caught("Error processing: builder")
    /\ UNCHANGED << fs, fs0, file_path, mime, category, new_filename, new_file_path,
                    confirmation, console, gatewayCalls, renameCalls,
                    normVars, clsVars, phase >>

\* client.responses.create and the rest of suggest_*_filename.
CallGateway ==
    /\ pc = "built"
    /\ gatewayCalls' = gatewayCalls + 1
    /\ \E r \in GatewayResponses :
         IF r.kind = "APIError"
         THEN Caught("Error processing: gateway") /\ UNCHANGED new_filename
         ELSE IF r.kind = "None" \/ Strip(r.text) = << >>
         THEN Caught("Error processing: Model returned no filename")
              /\ UNCHANGED new_filename
         ELSE /\ new_filename' = ensure_extension(Strip(r.text), PathSuffix(PathName(file_path)))
              /\ pc' = "suggested"
              /\ UNCHANGED << result, message >>
    /\ UNCHANGED << fs, fs0, file_path, mime, category, new_file_path,
                    confirmation, console, renameCalls, normVars, clsVars, phase >>

CheckName_confirm_first ==
    /\ pc = "suggested"
    /\ IF new_filename # << >> /\ new_filename # PathName(file_path)
       THEN /\ new_filename' = clean_filename(new_filename)
            /\ new_file_path' = os_path_join(PathParent(file_path), new_filename')
            /\ pc' = "confirm" /\ UNCHANGED << result, message >>
       ELSE /\ result' = "True" /\ message' = "AI suggests keeping original filename"
            /\ pc' = "done"
            /\ UNCHANGED << new_filename, new_file_path >>
    /\ UNCHANGED << fs, fs0, file_path, mime, category, confirmation, console,
                    gatewayCalls, renameCalls, normVars, clsVars, phase >>

\* Lines 327-335 and 344-346: the comparison with the original name, the
\* cleaning, the destination path and the collision check.
CheckName ==
    /\ pc = "suggested"
    /\ IF new_filename # << >> /\ new_filename # PathName(file_path)
       THEN /\ new_filename' = clean_filename(new_filename)
            /\ new_file_path' = os_path_join(PathParent(file_path), new_filename')
            /\ IF os_path_exists(fs, new_file_path')
               THEN /\ result' = "False" /\ message' = "Target file already exists"
                    /\ pc' = "done"
               ELSE pc' = "confirm" /\ UNCHANGED << result, message >>
       ELSE /\ result' = "True" /\ message' = "AI suggests keeping original filename"
            /\ pc' = "done"
            /\ UNCHANGED << new_filename, new_file_path >>
    /\ UNCHANGED << fs, fs0, file_path, mime, category, confirmation, console,
                    gatewayCalls, renameCalls, normVars, clsVars, phase >>

\* Line 338 with get_user_confirmation, and the else branch of line 342.
Confirm ==
    /\ pc = "confirm"
    /\ \E tty \in BOOLEAN, response \in ConsoleInputs :
         /\ console' = IF tty
                       THEN [ asked |-> TRUE, tty |-> TRUE,
                              kind |-> response.kind, text |-> response.text ]
                       ELSE [ asked |-> TRUE, tty |-> FALSE, kind |-> "", text |-> << >> ]
         /\ IF get_user_confirmation(tty, response)
            THEN /\ confirmation' = "accepted" /\ pc' = "rename"
                 /\ UNCHANGED << result, message >>
            ELSE /\ confirmation' = "declined" /\ pc' = "done"
                 /\ result' = "True" /\ message' = ""
    /\ UNCHANGED << fs, fs0, file_path, mime, category, new_filename, new_file_path,
                    gatewayCalls, renameCalls, normVars, clsVars, phase >>

\* Lines 339-341.
Rename ==
    /\ pc = "rename"
    /\ renameCalls' = renameCalls + 1
    /\ IF os_rename_ok(fs, file_path, new_file_path)
       THEN /\ fs' = os_rename(fs, file_path, new_file_path)
            /\ result' = "True" /\ message' = "Successfully renamed" /\ pc' = "done"
       ELSE Caught("Error processing: rename") /\ UNCHANGED fs
    /\ UNCHANGED << fs0, file_path, mime, category, new_filename, new_file_path,
                    confirmation, console, gatewayCalls, normVars, clsVars, phase >>

Next ==
    \/ Validate
    \/ BuildPayload
    \/ CallGateway
    \/ CheckName
    \/ Confirm
    \/ Rename

Spec == Init /\ [][Next]_vars

-----------------------------------------------------------------------------
(* Properties of rename_single_file, checked under Spec.                   *)

Done == pc = "done"

DestinationExisted == new_file_path \in DOMAIN fs0 \/ new_file_path \in Dirs

\* C1: when the destination path (the source directory joined with the
\* cleaned filename) already exists, the invocation ends at once in failure,
\* os.rename is never executed and every file keeps its name and content.
C1_CollisionLeavesFilesUnchanged ==
    (new_file_path # << >> /\ DestinationExisted) =>
        /\ Done
        /\ result = "False"
        /\ message = "Target file already exists"
        /\ renameCalls = 0
        /\ fs = fs0

\* A collision with another file of the directory was reported.
C1_Witness ==
    /\ Done
    /\ message = "Target file already exists"
    /\ new_file_path \in DOMAIN fs0
    /\ new_file_path # file_path
    /\ fs = fs0

\* C2: whenever the normalised name (ensure_extension, then clean_filename)
\* equals the original filename, the next step ends the invocation in
\* success with "AI suggests keeping original filename" and no filesystem
\* change.
C2_NormalizedEqualsOriginalIsNoOp ==
    [][ (pc = "suggested" /\ clean_filename(new_filename) = PathName(file_path)) =>
            /\ result' = "True"
            /\ message' = "AI suggests keeping original filename"
            /\ fs' = fs ]_vars

ValidTarget ==
    /\ file_path \in DOMAIN fs0
    /\ fs0[file_path].size <= MAX_FILE_BYTES

\* C3: a target that is no regular file, or is larger than 3 MiB, is rejected
\* with failure before any gateway call and without any filesystem change;
\* the gateway is called only for a regular file of at most 3 MiB, and such a
\* file (one of exactly 3 MiB included) is never rejected by the two guards.
C3_RejectedBeforeGateway ==
    /\ ~ValidTarget =>
          /\ pc \in {"start", "done"}
          /\ gatewayCalls = 0
          /\ fs = fs0
          /\ Done => result = "False"
    /\ gatewayCalls > 0 => ValidTarget
    /\ (ValidTarget /\ pc # "start") => message \notin {"Not a file", "File too large"}

\* A file one byte over the ceiling was rejected.
C3_Witness ==
    /\ Done
    /\ file_path \in DOMAIN fs0
    /\ fs0[file_path].size = MAX_FILE_BYTES + 1
    /\ message = "File too large"
    /\ result = "False"

\* C4: a run in which confirmation was accepted ends in success with exactly
\* one rename: the original path is gone, the new path is in the same
\* directory and holds the original's content, and every other file is as it
\* was.
C4_AcceptedRunRenamesInPlace ==
    (Done /\ confirmation = "accepted") =>
        /\ result = "True"
        /\ renameCalls = 1
        /\ file_path \notin DOMAIN fs
        /\ new_file_path \notin DOMAIN fs0
        /\ DOMAIN fs = (DOMAIN fs0 \ {file_path}) \cup {new_file_path}
        /\ PathParent(new_file_path) = PathParent(file_path)
        /\ \A i \in 1..Len(new_filename) : new_filename[i] # "/"
        /\ new_file_path = PathParent(file_path) \o << "/" >> \o new_filename
        /\ fs[new_file_path] = fs0[file_path]
        /\ \A p \in DOMAIN fs0 \ {file_path} : fs[p] = fs0[p]

\* A rename happened in a directory that holds other files.
C4_Witness ==
    /\ Done
    /\ confirmation = "accepted"
    /\ message = "Successfully renamed"
    /\ Cardinality(DOMAIN fs0) > Cardinality(TargetNames)
    /\ fs # fs0

\* C5: a failure of the payload builder or of the gateway call, and an empty
\* or whitespace-only model output, end the invocation in failure with the
\* filesystem untouched and the user never asked; no exception escapes and
\* the gateway is called at most once.
C5_FailuresAreCaught ==
    /\ result # "raised"
    /\ gatewayCalls <= 1
    /\ message \in { "Error processing: builder", "Error processing: gateway",
                     "Error processing: Model returned no filename" } =>
          /\ Done
          /\ result = "False"
          /\ fs = fs0
          /\ renameCalls = 0
          /\ ~console.asked

\* The model answered with nothing usable.
C5_Witness ==
    /\ Done
    /\ message = "Error processing: Model returned no filename"
    /\ gatewayCalls = 1
    /\ result = "False"

UserDeclined ==
    /\ console.asked
    /\ console.tty
    /\ console.kind = "KeyboardInterrupt" \/ Strip(console.text) # << >>

\* C6: a declined confirmation (a non-empty answer or an interrupt at a
\* terminal) ends the invocation in success with no rename and the filesystem
\* unchanged; os.rename is executed only after an accepted confirmation.
C6_DeclineIsSuccessWithoutRename ==
    /\ UserDeclined => confirmation = "declined"
    /\ confirmation = "declined" =>
          /\ Done
          /\ result = "True"
          /\ renameCalls = 0
          /\ fs = fs0
    /\ renameCalls > 0 => (console.asked /\ confirmation = "accepted")

\* The prompt was interrupted.
C6_Witness ==
    /\ Done
    /\ console.asked
    /\ console.kind = "KeyboardInterrupt"
    /\ confirmation = "declined"
    /\ result = "True"

\* C10 as claimed: every run that ends with a collision error is one in
\* which confirmation was requested and accepted first.
C10_ConfirmationBeforeCollisionCheck ==
    message = "Target file already exists" =>
        (console.asked /\ confirmation = "accepted")

\* C10 as amended: the collision check comes before the confirmation: a run
\* that ends with a collision error never requested confirmation, and
\* confirmation is requested only for a destination that did not exist.
C10_CollisionCheckBeforeConfirmation ==
    /\ message = "Target file already exists" =>
          (~console.asked /\ confirmation = "none")
    /\ console.asked => ~DestinationExisted

\* A collision ended the run with the user never asked.
C10_Witness ==
    /\ Done
    /\ message = "Target file already exists"
    /\ result = "False"
    /\ ~console.asked

-----------------------------------------------------------------------------
(* Properties of the normaliser, checked under NormSpec.                   *)

EndsWithIgnoringCase(s, suf) == EndsWith(Lower(s), Lower(suf))

\* C8: the final filename is non-empty and holds no reserved character.
C8_FinalNameNonEmptyWithoutReserved ==
    phase = "done" =>
        /\ final # << >>
        /\ \A i \in 1..Len(final) : final[i] \notin Reserved

\* C9: for a non-empty original extension the final filename ends with it
\* (ignoring case) and carries it once: what precedes it does not end with
\* the extension again.
C9_ExtensionExactlyOnce ==
    (phase = "done" /\ ext # << >>) =>
        /\ EndsWithIgnoringCase(final, ext)
        /\ ~EndsWithIgnoringCase(SubSeq(final, 1, Len(final) - Len(ext)), ext)

-----------------------------------------------------------------------------
(* Properties of the classifier, checked under ClsSpec.                    *)

ClsExtension == Lower(PathSuffix(cls_path))

MimeIsImage(m) == StartsWith(m, << "image", "/" >>)

MimeIsPdf(m) == m = << "application", "/", "pdf" >>

\* The category of the first table, in the documented order, holding e.
TableCategory(e) ==
    IF e \in IMAGE_EXTENSIONS THEN "image"
    ELSE IF e \in TEXT_EXTENSIONS THEN "text"
    ELSE IF e \in PDF_EXTENSIONS THEN "pdf"
    ELSE IF e \in DOCUMENT_EXTENSIONS THEN "document"
    ELSE IF e \in SPREADSHEET_EXTENSIONS THEN "spreadsheet"
    ELSE "presentation"

MimeCategory(m) ==
    IF MimeIsImage(m) THEN "image"
    ELSE IF MimeIsText(m) THEN "text"
    ELSE IF MimeIsPdf(m) THEN "pdf"
    ELSE "binary"

\* C7 as claimed: the first table holding the extension decides, whatever the
\* MIME type; the MIME checks decide only for an extension in no table.
C7_ExtensionDecidesRegardlessOfMime ==
    phase = "done" =>
        cls_out = IF ClsExtension \in TableExtensions
                  THEN TableCategory(ClsExtension)
                  ELSE MimeCategory(cls_mime)

\* C7 as amended: the rows image, text, pdf each match by extension or by
\* MIME check and are tried in that order before document, spreadsheet and
\* presentation, which match by extension alone.  So the table of the
\* extension decides unless the MIME type matches an earlier row, the MIME
\* checks decide for an extension in no table, and .csv is text unless the
\* MIME type is image/*.
C7_RowsMatchByExtensionOrMime ==
    phase = "done" =>
        LET e == ClsExtension
            m == cls_mime
            image == e \in IMAGE_EXTENSIONS \/ MimeIsImage(m)
            text  == e \in TEXT_EXTENSIONS \/ MimeIsText(m)
            pdf   == e \in PDF_EXTENSIONS \/ MimeIsPdf(m)
        IN  /\ cls_out = "image" <=> image
            /\ cls_out = "text" <=> (~image /\ text)
            /\ cls_out = "pdf" <=> (~image /\ ~text /\ pdf)
            /\ (~image /\ ~text /\ ~pdf) =>
                  cls_out = IF e \in TableExtensions THEN TableCategory(e) ELSE "binary"
            /\ e \notin TableExtensions => cls_out = MimeCategory(m)
            /\ (e \in TableExtensions /\ MimeCategory(m) = "binary") =>
                  cls_out = TableCategory(e)
            /\ e = << ".", "c", "s", "v" >> =>
                  cls_out = IF MimeIsImage(m) THEN "image" ELSE "text"

\* A document extension was classified as text because of its MIME type.
C7_Witness ==
    /\ phase = "done"
    /\ ClsExtension = << ".", "d", "o", "c" >>
    /\ cls_mime = << "text", "/", "plain" >>
    /\ cls_out = "text"

====
